---------------------------- MODULE Spec2Model ----------------------------
(***************************************************************************)
(* A model of filmoscopie's Wikipedia extraction-and-synchronization       *)
(* engine (src/filmoscopie/wikipedia/__init__.py and page.py).             *)
(*                                                                         *)
(* Text is modelled character by character: a Python str is a sequence of  *)
(* one-character strings, Chars("...") of its literal, so that str.find    *)
(* and the regular expressions of the source are computed on the same      *)
(* characters as in the program.  Python's 0-based index p is the model's  *)
(* 1-based index p + 1, and the "not found" result -1 of str.find is the   *)
(* model's 0.                                                              *)
(***************************************************************************)
EXTENDS Integers, Sequences, FiniteSets, TLC

\* ------------------------------------------------------------------ bounds
\* Longest dump (number of pages of the corpus file).
MaxPages == 3
\* Number of extractor runs (process starts) in one behaviour.
MaxRuns == 2
\* The batch size of parse_dump (50 in the source, line 78), scaled down so
\* that a dump of MaxPages pages spans more than one batch.
BatchSize == 2
\* The length limit of a synopsis (2000 in the source, page.py:277), the
\* least index of a sentence end that is cut at (1000, page.py:280) and the
\* least length of a synopsis (50, page.py:227), scaled down to the texts of
\* this model.
SynopsisMax == 12
SynopsisHalf == 6
SynopsisMin == 4
\* The longest digit string int() converts (4300 in the program's Python):
\* a longer one raises ValueError.  Scaled, and above the year's four digits.
IntMaxStrDigits == 4

\* ------------------------------------------------------------ text helpers
\* An optional value: None is Python's None, Some(v) is the value v.
None == <<>>
Some(v) == <<v>>

\* The characters of a string literal, as a sequence of one-character strings.
Chars(s) == SubSeq([i \in 1..Len(s) |-> SubSeq(s, i, i)], 1, Len(s))

Min(S) == CHOOSE x \in S : \A y \in S : x <= y
Max(S) == CHOOSE x \in S : \A y \in S : x >= y

UpperLetters == Chars("ABCDEFGHIJKLMNOPQRSTUVWXYZÉ")
LowerLetters == Chars("abcdefghijklmnopqrstuvwxyzé")

LowerOf == [k \in 1..Len(UpperLetters) |-> LowerLetters[k]]
UpperSet == {UpperLetters[k] : k \in 1..Len(UpperLetters)}
LowerMap ==
  [c \in UpperSet |-> LowerOf[CHOOSE k \in 1..Len(UpperLetters) : UpperLetters[k] = c]]
    @@ <<>>

\* Case folding of one character, as re.IGNORECASE compares characters.
Lower(c) == IF c \in UpperSet THEN LowerMap[c] ELSE c

\* pat occurs in text at index i; ci = TRUE compares case-insensitively.
MatchAt(text, i, pat, ci) ==
  /\ i >= 1
  /\ i + Len(pat) - 1 <= Len(text)
  /\ \A k \in 1..Len(pat) :
       IF ci THEN Lower(text[i + k - 1]) = Lower(pat[k])
             ELSE text[i + k - 1] = pat[k]

\* Index of the first occurrence of pat in text at or after from; 0 if none.
FindFrom(text, pat, from, ci) ==
  LET hits == {i \in from..(Len(text) - Len(pat) + 1) : MatchAt(text, i, pat, ci)}
  IN IF hits = {} THEN 0 ELSE Min(hits)

\* str.find(pat): case-sensitive, 0 stands for Python's -1.
find(text, pat) == FindFrom(text, pat, 1, FALSE)

\* re.search of a literal pattern with re.IGNORECASE.
search_ci(text, pat) == FindFrom(text, pat, 1, TRUE)

\* End (exclusive) of the line that holds index i: the regex  .  stops at "\n".
LineEnd(text, i) ==
  LET nl == {j \in i..Len(text) : text[j] = "\n"}
  IN IF nl = {} THEN Len(text) + 1 ELSE Min(nl)

\* ------------------------------------------------------- marker literals
S_InfoboxCinema == Chars("{{Infobox Cinéma")
S_InfoboxFilm == Chars("{{Infobox Film")
S_Infoboxfilm == Chars("{{Infobox film")
S_personnalite == Chars("(personnalité)")
S_ebauche == Chars("{{ébauche|film")
S_projecteur == Chars("projecteur")
S_festival == Chars("festival")
S_technologie == Chars("technologie")
S_studio == Chars("studio")
S_camera == Chars("caméra")
S_serie == Chars("série de films")

\* --------------------------------------------------------- page classifier
\* page.py:6  text.find("{{ébauche|film") != -1
is_draft(text) == find(text, S_ebauche) # 0

\* page.py:10  the f-string f"{{Infobox Cinéma ({theme})" is the text
\* "{Infobox Cinéma (<theme>)", with one opening brace.
SubThemes ==
  <<S_projecteur, S_festival, S_technologie, S_studio, S_camera, S_serie>>

SubThemeNeedle(theme) == Chars("{Infobox Cinéma (") \o theme \o Chars(")")

is_sub_theme(text) ==
  \E k \in 1..Len(SubThemes) : find(text, SubThemeNeedle(SubThemes[k])) # 0

\* page.py:24  cine = re.search(r"\{\{Infobox Cinéma.*", text, re.IGNORECASE)
is_film_article(text) ==
  LET c == search_ci(text, S_InfoboxCinema)
      cine0 == IF c = 0 THEN <<>> ELSE SubSeq(text, c, LineEnd(text, c) - 1)
  IN IF c # 0 /\ find(cine0, S_personnalite) = 0
     THEN TRUE
     ELSE \/ search_ci(text, S_InfoboxFilm) # 0
          \/ search_ci(text, S_Infoboxfilm) # 0

\* ---------------------------------------------------------- fingerprints
\* __init__.py:15  hashes(*args): the SHA-256 hex digest of each argument.
\* SHA-256 is modelled as collision-free: the digest is a value tagged
\* "sha256" that is distinct for distinct inputs and is never a text.
sha256_hexdigest(data) == <<"sha256", data>>

hashes(args) == [i \in 1..Len(args) |-> sha256_hexdigest(args[i])]

\* --------------------------------------------------------- field extractor
IsSpace(c) == c \in {" ", "\n", "\t"}
Digits == Chars("0123456789")
IsDigit(c) == \E d \in 1..10 : Digits[d] = c
DigitVal(c) == (CHOOSE d \in 1..10 : Digits[d] = c) - 1

\* First index >= i of text that is not whitespace (Len(text) + 1 if none):
\* where a greedy  \s*  started at i ends.
SkipSpace(text, i) ==
  LET rest == {j \in i..Len(text) : ~IsSpace(text[j])}
  IN IF rest = {} THEN Len(text) + 1 ELSE Min(rest)

\* End (exclusive) of the run of digits that starts at i: a greedy  \d+ .
DigitsEnd(text, i) ==
  LET rest == {j \in i..Len(text) : ~IsDigit(text[j])}
  IN IF rest = {} THEN Len(text) + 1 ELSE Min(rest)

RECURSIVE int(_)
\* int(s) of a string of decimal digits.
int(s) == IF s = <<>> THEN 0
          ELSE 10 * int(SubSeq(s, 1, Len(s) - 1)) + DigitVal(s[Len(s)])

\* str.strip()
strip(s) ==
  LET keep == {j \in 1..Len(s) : ~IsSpace(s[j])}
  IN IF keep = {} THEN <<>> ELSE SubSeq(s, Min(keep), Max(keep))

S_film_open == Chars("(film")
S_telefilm_open == Chars("(téléfilm")

\* Where a match of  \((télé)?film.*\)  that starts at i ends (exclusive), 0 if
\* there is none:  .*  is greedy and stays on the line, so the match runs to
\* the last ")" of the line.
TitleSuffixEnd(title, i) ==
  LET after == IF MatchAt(title, i, S_telefilm_open, FALSE)
               THEN i + Len(S_telefilm_open)
               ELSE IF MatchAt(title, i, S_film_open, FALSE)
                    THEN i + Len(S_film_open) ELSE 0
      closers == IF after = 0 THEN {}
                 ELSE {j \in after..(LineEnd(title, after) - 1) : title[j] = ")"}
  IN IF closers = {} THEN 0 ELSE Max(closers) + 1

RECURSIVE sub_title_suffix(_, _)
\* re.sub(r"\((télé)?film.*\)", "", title) from index i on.
sub_title_suffix(title, i) ==
  IF i > Len(title) THEN <<>>
  ELSE LET e == TitleSuffixEnd(title, i)
       IN IF e # 0 THEN sub_title_suffix(title, e)
          ELSE <<title[i]>> \o sub_title_suffix(title, i + 1)

\* page.py:72  the record every extraction starts from; actors is a list.
film_data0(title) ==
  [title |-> strip(sub_title_suffix(title, 1)),
   original_title |-> None, english_title |-> None, director |-> None,
   year |-> None, country |-> None, genre |-> None,
   duration_minutes |-> None, actors |-> <<>>, writer |-> None,
   producer |-> None, budget |-> None, imdb_id |-> None, synopsis |-> None]

S_infobox == Chars("{{Infobox")
S_cinema == Chars("Cinéma")
S_film == Chars("Film")
S_close == Chars("\n}}")

\* The candidates (i, e) of  \{\{Infobox[^}]*?(Cinéma|Film|film)  :
\* the opener at i, no "}" up to the word, the word ending before e.
InfoboxHeads(text) ==
  {h \in {i \in 1..Len(text) : MatchAt(text, i, S_infobox, TRUE)}
          \X (1..(Len(text) + 1)) :
     \E w \in {S_cinema, S_film} :
        /\ h[2] - Len(w) >= h[1] + Len(S_infobox)
        /\ MatchAt(text, h[2] - Len(w), w, TRUE)
        /\ \A j \in (h[1] + Len(S_infobox))..(h[2] - Len(w) - 1) :
             text[j] # "}"}

\* Start of group 2 after a head ending before e:  \s*  and  \|?  are greedy
\* and give characters back only when no "\n}}" is left to close the block.
InfoboxBodyStarts(text, e) ==
  LET ws == SkipSpace(text, e)
      cands == (e..ws) \cup (IF ws <= Len(text) /\ text[ws] = "|"
                             THEN {ws + 1} ELSE {})
  IN {p \in cands : FindFrom(text, S_close, p, FALSE) # 0}

\* page.py:89  infobox_match.group(2), or None when the search fails.
infobox_content(text) ==
  LET heads == {h \in InfoboxHeads(text) : InfoboxBodyStarts(text, h[2]) # {}}
  IN IF heads = {} THEN None
     ELSE LET i == Min({h[1] : h \in heads})
              e == Min({h[2] : h \in {g \in heads : g[1] = i}})
              p == Max(InfoboxBodyStarts(text, e))
          IN Some(SubSeq(text, p, FindFrom(text, S_close, p, FALSE) - 1))

S_annee == Chars("année")
S_sortie == Chars("sortie")
S_date == Chars("date")
S_duree == Chars("durée")

\* Index just after  label\s*=  when label matches at a (case-insensitive), else 0.
AfterLabelEq(text, a, label) ==
  IF ~MatchAt(text, a, label, TRUE) THEN 0
  ELSE LET q == SkipSpace(text, a + Len(label))
       IN IF q <= Len(text) /\ text[q] = "=" THEN q + 1 ELSE 0

FourDigitsAt(text, q) ==
  q + 3 <= Len(text) /\ \A k \in 0..3 : IsDigit(text[q + k])

\* page.py:122  re.search(r"année\s*=\s*(\d{4})", ...): the captured year or None.
year_field(content) ==
  LET hits == {a \in 1..Len(content) :
                 LET q == AfterLabelEq(content, a, S_annee)
                 IN q # 0 /\ FourDigitsAt(content, SkipSpace(content, q))}
  IN IF hits = {} THEN None
     ELSE LET q == SkipSpace(content, AfterLabelEq(content, Min(hits), S_annee))
          IN Some(int(SubSeq(content, q, q + 3)))

\* First index of a capture of  .*?(<digits>)  started at q, staying on the line.
LazyDigits(content, q, four) ==
  LET hits == {d \in q..(LineEnd(content, q) - 1) :
                 IF four THEN FourDigitsAt(content, d) ELSE IsDigit(content[d])}
  IN IF hits = {} THEN 0 ELSE Min(hits)

\* page.py:128  re.search(r"(?:sortie|date)\s*=.*?(\d{4})", ...)
date_field(content) ==
  LET q(a) == IF AfterLabelEq(content, a, S_sortie) # 0
              THEN AfterLabelEq(content, a, S_sortie)
              ELSE AfterLabelEq(content, a, S_date)
      hits == {a \in 1..Len(content) :
                 q(a) # 0 /\ LazyDigits(content, q(a), TRUE) # 0}
  IN IF hits = {} THEN None
     ELSE LET d == LazyDigits(content, q(Min(hits)), TRUE)
          IN Some(int(SubSeq(content, d, d + 3)))

\* page.py:135  re.search(r"durée\s*=.*?(\d+)", ...): the captured digits.
duration_digits(content) ==
  LET q(a) == AfterLabelEq(content, a, S_duree)
      hits == {a \in 1..Len(content) :
                 q(a) # 0 /\ LazyDigits(content, q(a), FALSE) # 0}
  IN IF hits = {} THEN None
     ELSE LET d == LazyDigits(content, q(Min(hits)), FALSE)
          IN Some(SubSeq(content, d, DigitsEnd(content, d) - 1))

\* int(s) raises ValueError when s has more digits than the conversion limit.
int_raises(s) == Len(s) > IntMaxStrDigits

\* page.py:137  int(duration_match.group(1)), when it returns.
duration_field(content) ==
  LET digits == duration_digits(content)
  IN IF digits = None THEN None ELSE Some(int(digits[1]))

\* ------------------------------------------------------ regular expressions
\* The patterns of page.py that substitute, split or capture are written as
\* terms and matched as Python's re matches them: by backtracking, the
\* alternatives tried in order, a greedy repetition trying more first and a
\* lazy one trying less first.
Lit(c) == [op |-> "lit", c |-> c]
In(S) == [op |-> "in", S |-> S]
NotIn(S) == [op |-> "notin", S |-> S]
Dot == [op |-> "dot"]
EndZ == [op |-> "end"]
Cat(rs) == [op |-> "cat", rs |-> rs]
Alt(rs) == [op |-> "alt", rs |-> rs]
Rep(r, lo, hi, greedy) ==
  [op |-> "rep", r |-> r, lo |-> lo, hi |-> hi, greedy |-> greedy]
\* No upper limit of a repetition.
Inf == -1
Star(r) == Rep(r, 0, Inf, TRUE)
Plus(r) == Rep(r, 1, Inf, TRUE)
Opt(r) == Rep(r, 0, 1, TRUE)
StarLazy(r) == Rep(r, 0, Inf, FALSE)
PlusLazy(r) == Rep(r, 1, Inf, FALSE)
\* The pattern of a literal text.
Str(s) == [op |-> "str", s |-> s]
Empty == Cat(<<>>)
SpaceChars == {" ", "\n", "\t"}
DigitChars == {Digits[d] : d \in 1..Len(Digits)}
LetterChars == {LowerLetters[k] : k \in 1..26}
\* re flags: IGNORECASE and DOTALL.
Flags(ci, dotall) == [ci |-> ci, dotall |-> dotall]

\* One character against a one-character pattern.
CharOK(r, c, fl) ==
  CASE r.op = "lit" -> IF fl.ci THEN Lower(c) = Lower(r.c) ELSE c = r.c
    [] r.op = "in" -> IF fl.ci THEN \E x \in r.S : Lower(x) = Lower(c)
                                ELSE c \in r.S
    [] r.op = "notin" -> IF fl.ci THEN \A x \in r.S : Lower(x) # Lower(c)
                                   ELSE c \notin r.S
    [] r.op = "dot" -> fl.dotall \/ c # "\n"

\* The elements of a sequence.
Range(s) == {s[k] : k \in 1..Len(s)}

\* A sequence given as a function, as the tuple of its values.
Tup(f) == SubSeq(f, 1, Len(f))
\* A function, as the table of its values.
Table(f) == f @@ <<>>

\* The candidates in the order of their ranks 0, 1, 2, ...
ByRank(cand, rank) ==
  Tup([i \in 1..Cardinality(cand) |-> CHOOSE p \in cand : rank[p] = i - 1])

\* The candidates in the order of their keys.
ByKey(cand, key) ==
  ByRank(cand, Table([p \in cand |-> Cardinality({q \in cand : key[q] < key[p]})]))

\* The key of p: the place of its first occurrence in the sequences ss.
FirstPlace(p, ss, width, j) == j * width + Min({k \in 1..Len(ss[j]) : ss[j][k] = p})

\* The elements cand of the sequences ss in the order of their first occurrences.
ByFirstPlace(cand, ss, width) ==
  ByKey(cand, Table([p \in cand |->
                       FirstPlace(p, ss, width,
                                  Min({i \in 1..Len(ss) : p \in Range(ss[i])}))]))

\* The concatenation of the sequences ss, each without repetition, without
\* the later occurrences of its elements.
Merged(ss) ==
  IF Len(ss) = 1 THEN ss[1]
  ELSE ByFirstPlace(UNION {Range(ss[j]) : j \in 1..Len(ss)}, ss,
                    Max({Len(ss[j]) : j \in 1..Len(ss)}) + 1)

\* The concatenation of a sequence of sequences, without the later
\* occurrences of its elements: the order of the first occurrences.
FlatDedup(seqs) == Merged(Tup([j \in 1..Len(seqs) |-> Tup(seqs[j])]))

\* The index at which a run that started at i ends, bad being the indices
\* from i on whose character breaks it.
RunTo(bad, t, i) == (IF bad = {} THEN Len(t) + 1 ELSE Min(bad)) - i

\* The number of characters from index i on that the one-character pattern r
\* matches in a row.
Run(r, t, i, fl) == RunTo({j \in i..Len(t) : ~CharOK(r, t[j], fl)}, t, i)

\* The ends of a repetition r of a one-character pattern that may take up to
\* top characters from index i on: a greedy one tries more first.
RunEnds(top, r, i) ==
  IF top < r.lo THEN <<>>
  ELSE Tup([k \in 1..(top - r.lo + 1) |->
              IF r.greedy THEN i + top - k + 1 ELSE i + r.lo + k - 1])

\* The most characters a repetition r may take of a run of that length.
Top(r, run) == IF r.hi = Inf \/ run < r.hi THEN run ELSE r.hi

\* The ends e that advance from index i.
Advancing(one, i) ==
  LET adv(e) == e > i
  IN SelectSeq(one, adv)

RECURSIVE Ends(_, _, _, _)
RECURSIVE CatEnds(_, _, _, _, _)
RECURSIVE RepEnds(_, _, _, _, _)
RECURSIVE RepNext(_, _, _, _, _, _)
\* The indices at which a match of r that starts at index i of t may end
\* (exclusive), in the order in which backtracking tries them.
Ends(r, t, i, fl) ==
  CASE r.op \in {"lit", "in", "notin", "dot"} ->
         IF i <= Len(t) /\ CharOK(r, t[i], fl) THEN <<i + 1>> ELSE <<>>
    [] r.op = "str" -> IF MatchAt(t, i, r.s, fl.ci) THEN <<i + Len(r.s)>> ELSE <<>>
    [] r.op = "end" -> IF i = Len(t) + 1 THEN <<i>> ELSE <<>>
    [] r.op = "cat" -> CatEnds(r.rs, 1, t, <<i>>, fl)
    [] r.op = "alt" -> FlatDedup([k \in 1..Len(r.rs) |-> Ends(r.rs[k], t, i, fl)])
    [] r.op = "rep" ->
         IF r.r.op \in {"lit", "in", "notin", "dot"}
         THEN RunEnds(Top(r, Run(r.r, t, i, fl)), r, i)
         ELSE RepEnds(r, t, i, 0, fl)

CatEnds(rs, k, t, starts, fl) ==
  IF k > Len(rs) \/ starts = <<>> THEN starts
  ELSE CatEnds(rs, k + 1, t,
               FlatDedup([j \in 1..Len(starts) |-> Ends(rs[k], t, starts[j], fl)]),
               fl)

\* A repetition of a pattern of several characters, after cnt rounds.
RepEnds(r, t, i, cnt, fl) ==
  RepNext(Advancing(Ends(r.r, t, i, fl), i), r, t, i, cnt, fl)

\* One more round may end at the indices next: a greedy repetition tries the
\* longer matches first, and stopping here last.
RepNext(next, r, t, i, cnt, fl) ==
  FlatDedup((IF r.greedy THEN <<>> ELSE <<IF cnt >= r.lo THEN <<i>> ELSE <<>>>>)
            \o (IF r.hi # Inf /\ cnt >= r.hi THEN <<>>
                ELSE [j \in 1..Len(next) |-> RepEnds(r, t, next[j], cnt + 1, fl)])
            \o (IF r.greedy THEN <<IF cnt >= r.lo THEN <<i>> ELSE <<>>>> ELSE <<>>))

\* The first element of a sequence that is not <<>>; <<>> if there is none.
FirstFound(ms) ==
  LET ok == {k \in 1..Len(ms) : ms[k] # <<>>}
  IN IF ok = {} THEN <<>> ELSE ms[Min(ok)]

\* The group ends at h: the end of the match when post follows there.
PostEnd(e, g, h) == IF e = <<>> THEN <<>> ELSE <<g, h, Head(e)>>

\* The group starts at g and may end at the indices G, tried in order.
GroupEnd(G, post, t, g, fl) ==
  FirstFound(Tup([m \in 1..Len(G) |-> PostEnd(Ends(post, t, G[m], fl), g, G[m])]))

\* pre may end at the indices P, tried in order.
PreEnd(P, grp, post, t, fl) ==
  FirstFound(Tup([k \in 1..Len(P) |->
                    GroupEnd(Ends(grp, t, P[k], fl), post, t, P[k], fl)]))

\* The match starts at s, its group and end are m.
Started(s, m) == IF m = <<>> THEN <<>> ELSE <<s>> \o m

\* The first match of  pre(grp)post  that starts at index s: <<s, g, h, e>>
\* with the group at g..h-1 and the match ending before e; <<>> if none.
MatchAtStart(pre, grp, post, t, s, fl) ==
  Started(s, PreEnd(Ends(pre, t, s, fl), grp, post, t, fl))

RECURSIVE CanStart(_, _, _, _)
\* Whether the first character at index s leaves r a chance to match there:
\* TRUE whenever r matches at s, and whenever r matches the empty text.
CanStart(r, t, s, fl) ==
  CASE r.op \in {"lit", "in", "notin", "dot"} -> s <= Len(t) /\ CharOK(r, t[s], fl)
    [] r.op = "str" -> MatchAt(t, s, r.s, fl.ci)
    [] r.op = "end" -> TRUE
    [] r.op = "cat" -> r.rs = <<>> \/ CanStart(r.rs[1], t, s, fl)
    [] r.op = "alt" -> \E k \in 1..Len(r.rs) : CanStart(r.rs[k], t, s, fl)
    [] r.op = "rep" -> r.lo = 0 \/ CanStart(r.r, t, s, fl)

\* The match that starts at s, if the first character allows one.
MatchAtStartOrNone(pre, grp, post, t, s, fl) ==
  IF CanStart(pre, t, s, fl) THEN MatchAtStart(pre, grp, post, t, s, fl) ELSE <<>>

\* re.search from index from on: the leftmost start that matches.
Search(pre, grp, post, t, from, fl) ==
  FirstFound(Tup([k \in 1..(Len(t) + 2 - from) |->
                    MatchAtStartOrNone(pre, grp, post, t, from + k - 1, fl)]))

\* match.group(1)
Group(t, m) == SubSeq(t, m[2], m[3] - 1)

\* One re.sub: the pattern  pre(grp)post , its flags, and what a match is
\* replaced by: its group (keep) or the text with.
Sub(pre, grp, post, fl, keep, with) ==
  [pre |-> pre, grp |-> grp, post |-> post, fl |-> fl, keep |-> keep, with |-> with]
\* re.sub(pattern, r"\1", ...)
SubGroup(pre, grp, post, fl) == Sub(pre, grp, post, fl, TRUE, <<>>)
\* re.sub(pattern, with, ...)
Replace(r, fl, with) == Sub(r, Empty, Empty, fl, FALSE, with)
\* re.sub(pattern, "", ...)
Remove(r, fl) == Replace(r, fl, <<>>)

RECURSIVE SubFrom(_, _, _)
RECURSIVE SubMatch(_, _, _, _)
\* re.sub on t from index i on.  No pattern of page.py matches the empty text.
SubFrom(sub, t, i) ==
  SubMatch(Search(sub.pre, sub.grp, sub.post, t, i, sub.fl), sub, t, i)

\* The next match is m (<<>> when there is none).
SubMatch(m, sub, t, i) ==
  IF m = <<>> THEN SubSeq(t, i, Len(t))
  ELSE SubSeq(t, i, m[1] - 1)
       \o (IF sub.keep THEN Group(t, m) ELSE sub.with)
       \o SubFrom(sub, t, m[4])

RECURSIVE re_subs(_, _, _)
\* The substitutions subs[k], subs[k+1], ... applied to t one after the other
\* (an empty text stays empty).
re_subs(subs, k, t) ==
  IF k > Len(subs) \/ Len(t) = 0 THEN t
  ELSE re_subs(subs, k + 1, SubFrom(subs[k], t, 1))

RECURSIVE SplitFrom(_, _, _, _)
RECURSIVE SplitMatch(_, _, _, _, _)
\* re.split(pattern, t) from index i on: the pieces between the matches.
SplitFrom(r, t, i, fl) == SplitMatch(Search(r, Empty, Empty, t, i, fl), r, t, i, fl)

\* The next separator is m (<<>> when there is none).
SplitMatch(m, r, t, i, fl) ==
  IF m = <<>> THEN <<SubSeq(t, i, Len(t))>>
  ELSE <<SubSeq(t, i, m[1] - 1)>> \o SplitFrom(r, t, m[4], fl)

\* ------------------------------------------------------------ text cleaner
NoFlags == Flags(FALSE, FALSE)
DotAll == Flags(FALSE, TRUE)
IgnoreCase == Flags(TRUE, FALSE)
IgnoreCaseDotAll == Flags(TRUE, TRUE)
Spaces == Star(In(SpaceChars))

\* \[\[(?:[^|\]]*\|)?([^\]]+)\]\]
R_link_pre == Cat(<<Str(Chars("[[")), Opt(Cat(<<Star(NotIn({"|", "]"})), Lit("|")>>))>>)
R_link_grp == Plus(NotIn({"]"}))
R_link_post == Str(Chars("]]"))
\* \{\{(?:[^|\}]*\|)?([^\}]+)\}\}
R_tmpl_pre == Cat(<<Str(Chars("{{")), Opt(Cat(<<Star(NotIn({"|", "}"})), Lit("|")>>))>>)
R_tmpl_grp == Plus(NotIn({"}"}))
R_tmpl_post == Str(Chars("}}"))
\* <[^>]+>
R_tag == Cat(<<Lit("<"), Plus(NotIn({">"})), Lit(">")>>)
\* <ref[^>]*>.*?</ref>
R_ref == Cat(<<Str(Chars("<ref")), Star(NotIn({">"})), Lit(">"), StarLazy(Dot),
               Str(Chars("</ref>"))>>)
\* <ref[^>]*/?>
R_ref_open == Cat(<<Str(Chars("<ref")), Star(NotIn({">"})), Opt(Lit("/")), Lit(">")>>)
\* '{2,}
R_quotes == Rep(Lit("'"), 2, Inf, TRUE)
\* \s+
R_spaces == Plus(In(SpaceChars))

\* page.py:295-309  the substitutions of clean_value, in order.
clean_value_subs ==
  <<SubGroup(R_link_pre, R_link_grp, R_link_post, NoFlags),
    SubGroup(R_tmpl_pre, R_tmpl_grp, R_tmpl_post, NoFlags),
    Remove(R_tag, NoFlags),
    Remove(R_ref, DotAll),
    Remove(R_ref_open, NoFlags),
    Remove(R_quotes, NoFlags),
    Replace(R_spaces, NoFlags, <<" ">>)>>

\* page.py:288  clean_value
clean_value(value) == strip(re_subs(clean_value_subs, 1, strip(value)))

\* str.lstrip(chars)
lstrip(s, chars) ==
  LET keep == {j \in 1..Len(s) : s[j] \notin chars}
  IN IF keep = {} THEN <<>> ELSE SubSeq(s, Min(keep), Len(s))

\* \n\*|\n-|<br\s*/?>|,
R_list_sep ==
  Alt(<<Str(Chars("\n*")), Str(Chars("\n-")),
        Cat(<<Str(Chars("<br")), Spaces, Opt(Lit("/")), Lit(">")>>), Lit(",")>>)

\* page.py:327  the pieces that are kept: those of more than one character.
long_items(items) ==
  LET long(item) == item # <<>> /\ Len(item) > 1
  IN SelectSeq(items, long)

\* page.py:325  each kept piece, cleaned.
cleaned_items(kept) ==
  Tup([k \in 1..Len(kept) |-> strip(lstrip(clean_value(kept[k]), {"-", " "}))])

\* page.py:314  parse_list of a text (the None case is ParseListOpt).
parse_list(text) == cleaned_items(long_items(SplitFrom(R_list_sep, text, 1, NoFlags)))

\* parse_list of an optional text: None gives the empty list.
ParseListOpt(text) == IF text = None THEN <<>> ELSE parse_list(text[1])

\* ={2,}.*?={2,}
R_heading == Cat(<<Rep(Lit("="), 2, Inf, TRUE), StarLazy(Dot), Rep(Lit("="), 2, Inf, TRUE)>>)
\* \[https?://[^\s\]]+\s+([^\]]+)\]
R_ext_pre ==
  Cat(<<Str(Chars("[http")), Opt(Lit("s")), Str(Chars("://")),
        Plus(NotIn(SpaceChars \cup {"]"})), Plus(In(SpaceChars))>>)
R_ext_grp == Plus(NotIn({"]"}))
R_ext_post == Lit("]")
\* \[https?://[^\s\]]+\]
R_ext_bare ==
  Cat(<<Str(Chars("[http")), Opt(Lit("s")), Str(Chars("://")),
        Plus(NotIn(SpaceChars \cup {"]"})), Lit("]")>>)
\* \{\{[Rr]éférence[^}]*\}\}
R_reference ==
  Cat(<<Str(Chars("{{")), In({"R", "r"}), Str(Chars("éférence")),
        Star(NotIn({"}"})), Str(Chars("}}"))>>)
\* \{\{[^}]+\}\}
R_template == Cat(<<Str(Chars("{{")), Plus(NotIn({"}"})), Str(Chars("}}"))>>)
\* \n+
R_newlines == Plus(Lit("\n"))
\* " +"
R_blanks == Plus(Lit(" "))

\* str.rfind(sub, 0, end): the last index below Python's end at which the
\* one-character sub occurs, as a 0-based index; -1 if there is none.
rfind(s, sub, end) ==
  LET hits == {j \in 1..Min({Len(s), end}) : s[j] = sub}
  IN IF hits = {} THEN -1 ELSE Max(hits) - 1

\* page.py:244-271  the substitutions of clean_synopsis, in order.
clean_synopsis_subs ==
  <<Remove(R_heading, NoFlags),
    SubGroup(R_link_pre, R_link_grp, R_link_post, NoFlags),
    SubGroup(R_ext_pre, R_ext_grp, R_ext_post, NoFlags),
    Remove(R_ext_bare, NoFlags),
    Remove(R_tag, NoFlags),
    Remove(R_reference, NoFlags),
    Remove(R_ref, DotAll),
    Remove(R_ref_open, NoFlags),
    Remove(R_template, NoFlags),
    Remove(R_quotes, NoFlags),
    Replace(R_newlines, NoFlags, <<"\n">>),
    Replace(R_blanks, NoFlags, <<" ">>)>>

\* page.py:243-274  the cleaning of clean_synopsis, before the length limit.
clean_synopsis_markup(synopsis) == strip(re_subs(clean_synopsis_subs, 1, synopsis))

\* page.py:276-283  the length limit of clean_synopsis.
limit_synopsis(synopsis) ==
  IF Len(synopsis) > SynopsisMax
  THEN LET cutoff == rfind(synopsis, ".", SynopsisMax)
       IN IF cutoff > SynopsisHalf
          THEN SubSeq(synopsis, 1, cutoff + 1)
          ELSE SubSeq(synopsis, 1, SynopsisMax) \o Chars("...")
  ELSE synopsis

\* page.py:233  clean_synopsis
clean_synopsis(synopsis) == limit_synopsis(clean_synopsis_markup(synopsis))

\* ==\s*<heading>\s*==\s*\n(.*?)(?:\n==|\Z)
R_section_pre(heading) ==
  Cat(<<Str(Chars("==")), Spaces, Str(heading), Spaces, Str(Chars("==")), Spaces,
        Lit("\n")>>)
R_section_grp == StarLazy(Dot)
R_section_post == Alt(<<Str(Chars("\n==")), EndZ>>)

\* page.py:210  synopsis_patterns, by their headings.
synopsis_headings ==
  <<Chars("Synopsis"), Chars("Résumé"), Chars("Histoire"), Chars("Intrigue"),
    Chars("Scénario")>>

\* A variant of substantial that returns a synopsis of any length.
substantial_any(synopsis) == Some(synopsis)

\* page.py:227  only a synopsis of at least SynopsisMin characters is returned.
substantial(synopsis) ==
  IF Len(synopsis) >= SynopsisMin THEN Some(synopsis) ELSE None

\* page.py:220-228  the pattern of a heading matched (m) or missed (<<>>).
section_match(m, text) ==
  IF m = <<>> THEN None ELSE substantial(clean_synopsis(Group(text, m)))

\* The cleaned section under heading number k: None when the pattern misses
\* or the cleaned text is shorter than SynopsisMin.
section_synopsis(text, k) ==
  section_match(Search(R_section_pre(synopsis_headings[k]), R_section_grp,
                       R_section_post, text, 1, IgnoreCaseDotAll), text)

RECURSIVE synopsis_from(_, _)
RECURSIVE synopsis_or_next(_, _, _)
\* page.py:218  the loop over synopsis_patterns, from pattern number k on.
synopsis_from(text, k) ==
  IF k > Len(synopsis_headings) THEN None
  ELSE synopsis_or_next(section_synopsis(text, k), text, k)

\* page.py:228  the first section that qualifies is returned.
synopsis_or_next(found, text, k) ==
  IF found # None THEN found ELSE synopsis_from(text, k + 1)

\* page.py:193  extract_synopsis: the first heading, in order, that qualifies.
\* (Every pattern begins with "==": a text without it matches none of them.)
extract_synopsis(text) ==
  IF find(text, Chars("==")) = 0 THEN None ELSE synopsis_from(text, 1)

\* Python truthiness of an optional int: None and 0 are falsy.
Falsy(v) == v = None \/ v = Some(0)
\* Python truthiness of an optional text: None and "" are falsy.
FalsyText(v) == v = None \/ v = Some(<<>>)

\* <label>\s*=\s*(.+)
R_field_pre(label) == Cat(<<label, Spaces, Lit("="), Spaces>>)
R_field_grp == Plus(Dot)

\* page.py:101  field_patterns, by their labels.
L_original_title == Str(Chars("titre original"))
L_director == Str(Chars("réalisation"))
L_writer == Str(Chars("scénario"))
L_producer == Alt(<<Str(Chars("producteur")), Str(Chars("production"))>>)
L_country == Str(Chars("pays"))
L_genre == Str(Chars("genre"))
L_budget == Str(Chars("budget"))
L_english_title == Str(Chars("titre anglais"))

\* match.group(1) of a search in t, or None when it found nothing.
GroupOrNone(m, t) == IF m = <<>> THEN None ELSE Some(Group(t, m))

\* page.py:114  match.group(1) of a field pattern on the infobox, or None.
field_match(label, content) ==
  GroupOrNone(Search(R_field_pre(label), R_field_grp, Empty, content, 1, IgnoreCase),
              content)

\* page.py:101-111  field_patterns in order, each with whether it is in to_split.
field_patterns ==
  <<[field |-> "original_title", label |-> L_original_title, split |-> FALSE],
    [field |-> "director", label |-> L_director, split |-> FALSE],
    [field |-> "writer", label |-> L_writer, split |-> TRUE],
    [field |-> "producer", label |-> L_producer, split |-> TRUE],
    [field |-> "country", label |-> L_country, split |-> TRUE],
    [field |-> "genre", label |-> L_genre, split |-> TRUE],
    [field |-> "budget", label |-> L_budget, split |-> FALSE]>>

\* page.py:115-119  the value of a field whose pattern captured g (None: no
\* match, the field stays None).
field_value(split, g) ==
  IF g = None THEN None
  ELSE Some(IF split THEN parse_list(g[1]) ELSE clean_value(g[1]))

\* page.py:113  the loop over field_patterns: the value of each field.
basic_fields(content) ==
  Tup([k \in 1..Len(field_patterns) |->
         field_value(field_patterns[k].split,
                     field_match(field_patterns[k].label, content))])

\* acteur\s*=\s*(.+?)(?:\n\||\n\}\})
R_actors_pre == Cat(<<Str(Chars("acteur")), Spaces, Lit("="), Spaces>>)
R_actors_grp == PlusLazy(Dot)
R_actors_post == Alt(<<Str(Chars("\n|")), Str(Chars("\n}}"))>>)

\* page.py:145-146  the actors: every piece parse_list returns.
actors_match(g) == IF g = None THEN <<>> ELSE parse_list(g[1])

\* page.py:140-146  the actors field.
actors_field(content) ==
  actors_match(GroupOrNone(Search(R_actors_pre, R_actors_grp, R_actors_post,
                                  content, 1, IgnoreCaseDotAll), content))

\* \{\{Titre en langue\|en\|([^}]+)\}\}
R_lang_title_pre == Str(Chars("{{Titre en langue|en|"))
R_lang_title_grp == Plus(NotIn({"}"}))
R_lang_title_post == Str(Chars("}}"))

\* page.py:162-163  the template gives the title when it matched.
lang_title(g, t1) == IF g = None THEN t1 ELSE Some(clean_value(g[1]))

\* page.py:157-163  the template is looked for when the field gave nothing.
english_title_or_template(t1, text) ==
  IF FalsyText(t1)
  THEN lang_title(GroupOrNone(Search(R_lang_title_pre, R_lang_title_grp,
                                     R_lang_title_post, text, 1, IgnoreCase), text),
                  t1)
  ELSE t1

\* page.py:150-163  the english title, by the infobox field or by the template.
english_title_field(content, text) ==
  english_title_or_template(lang_title(field_match(L_english_title, content), None),
                            text)

\* \{\{IMDb\s+titre\s*\|\s*(?:id\s*=\s*)?([a-z]*\d+)
R_imdb_template_pre ==
  Cat(<<Str(Chars("{{IMDb")), Plus(In(SpaceChars)), Str(Chars("titre")), Spaces,
        Lit("|"), Spaces, Opt(Cat(<<Str(Chars("id")), Spaces, Lit("="), Spaces>>))>>)
R_imdb_template_grp == Cat(<<Star(In(LetterChars)), Plus(In(DigitChars))>>)
\* imdb\.com/title/(tt\d+)
R_imdb_url_pre == Str(Chars("imdb.com/title/"))
R_imdb_url_grp == Cat(<<Str(Chars("tt")), Plus(In(DigitChars))>>)
\* (?:IMDb|IMDB)\s*=\s*([a-z]{2}\d+)
R_imdb_field_pre ==
  Cat(<<Alt(<<Str(Chars("IMDb")), Str(Chars("IMDB"))>>), Spaces, Lit("="), Spaces>>)
R_imdb_field_grp == Cat(<<Rep(In(LetterChars), 2, 2, TRUE), Plus(In(DigitChars))>>)

\* page.py:167-185  the three patterns of the IMDb id, in order.
imdb_patterns ==
  <<[pre |-> R_imdb_template_pre, grp |-> R_imdb_template_grp],
    [pre |-> R_imdb_url_pre, grp |-> R_imdb_url_grp],
    [pre |-> R_imdb_field_pre, grp |-> R_imdb_field_grp]>>

RECURSIVE imdb_from(_, _)
RECURSIVE imdb_or_next(_, _, _)
\* The IMDb id by the methods from number k on.
imdb_from(text, k) ==
  IF k > Len(imdb_patterns) THEN None
  ELSE imdb_or_next(GroupOrNone(Search(imdb_patterns[k].pre, imdb_patterns[k].grp,
                                       Empty, text, 1, IgnoreCase), text),
                    text, k)

\* A variant of imdb_or_next without the tests of lines 174 and 180: a later
\* method that matches overrides an earlier one.
imdb_or_next_override(found, text, k) ==
  IF imdb_from(text, k + 1) # None THEN imdb_from(text, k + 1) ELSE found

\* page.py:174,180  the next method is tried when the id is still None (no
\* pattern captures an empty id).
imdb_or_next(found, text, k) ==
  IF found # None THEN found ELSE imdb_from(text, k + 1)

\* page.py:167-185  the IMDb id, by the first of the three methods that matches.
\* (Each pattern holds the letters "imdb": a text without them matches none.)
imdb_id_field(text) ==
  IF search_ci(text, Chars("imdb")) = 0 THEN None ELSE imdb_from(text, 1)

\* page.py:137  extract_film_data raises: the int() of the duration raises
\* ValueError, after the infobox was found and before anything is returned.
extract_film_data_raises(title, text) ==
  LET infobox_match == infobox_content(text)
      digits == duration_digits(infobox_match[1])
  IN infobox_match # None /\ digits # None /\ int_raises(digits[1])

\* page.py:127-132  the release date gives the year when année gave none.
year_or_date(y1, date) == IF Falsy(y1) /\ date # None THEN date ELSE y1

\* page.py:98-188  the record of a page whose infobox holds content.
film_data_of(film, basic, content, text) ==
  [film EXCEPT
     !.original_title = basic[1],
     !.director = basic[2],
     !.writer = basic[3],
     !.producer = basic[4],
     !.country = basic[5],
     !.genre = basic[6],
     !.budget = basic[7],
     !.year = year_or_date(year_field(content), date_field(content)),
     !.duration_minutes = duration_field(content),
     !.actors = actors_field(content),
     !.english_title = english_title_field(content, text),
     !.imdb_id = imdb_id_field(text),
     !.synopsis = extract_synopsis(text)]

\* A variant of film_data_in without the early return of line 96: what is
\* searched in the full markup is searched without an infobox too.
film_data_in_full(film, infobox_match, text) ==
  IF infobox_match = None
  THEN [film EXCEPT !.english_title = english_title_or_template(None, text),
                    !.imdb_id = imdb_id_field(text),
                    !.synopsis = extract_synopsis(text)]
  ELSE film_data_of(film, basic_fields(infobox_match[1]), infobox_match[1], text)

\* page.py:95-98  without an infobox the record is returned as it started.
film_data_in(film, infobox_match, text) ==
  IF infobox_match = None THEN film
  ELSE film_data_of(film, basic_fields(infobox_match[1]), infobox_match[1], text)

\* page.py:54  extract_film_data, when it returns.
extract_film_data(title, text) ==
  film_data_in(film_data0(title), infobox_content(text), text)

\* json.dumps(film): the serialized record, a value of its own kind.
json_dumps(film) == <<"json", film>>

\* ------------------------------------------------------------- the corpus
\* Titles and markup bodies of the pages a dump is made of.
T_A == Chars("A")
T_A_film == Chars("A (film)")

B_Film == Chars("{{Infobox Film\n}}")
B_Film1998 == Chars("{{Infobox Film|année=1998\n}}")
B_Draft == Chars("{{ébauche|film}}{{Infobox Film\n}}")

Page(title, text) == [title |-> title, text |-> text]

Pages ==
  {Page(T_A, B_Film), Page(T_A, B_Film1998), Page(T_A_film, B_Film),
   Page(T_A_film, B_Draft)}

SeqsUpTo(S, k) == UNION {[1..j -> S] : j \in 0..k}

\* The dump files of the model: every sequence of at most MaxPages pages.
Dumps == SeqsUpTo(Pages, MaxPages)

\* Pages that carry every kind of marker the classifier looks at.
B_Cinema == Chars("{{Infobox Cinéma\n}}")
B_Festival == Chars("{{Infobox Cinéma (festival)\n}}")
B_Person == Chars("{{Infobox Cinéma (personnalité)\n}}")
B_PersonFilm == B_Person \o B_Film
B_Plain == Chars("A film")

ClassifierPages ==
  {Page(T_A, b) : b \in {B_Film, B_Film1998, B_Cinema, B_Draft, B_Festival,
                         B_Person, B_PersonFilm, B_Plain}}

\* ------------------------------------------------------------------ state
VARIABLES
  dump_file,        \* the decompressed dump on disk, a sequence of pages
  movie,            \* table movie as committed in wikipedia.db (set of rows)
  con,              \* table movie as the open connection sees it
  pc,               \* where the process is: "off", "constructed", "pages",
                    \* "select", "loop", "commit", "done", "raised", "killed"
  dump_source,      \* self.dump_source: the pages not yet read
  pages_processed,  \* self.pages_processed
  films_count,      \* self.films_count
  max_id,           \* self.max_id
  current_id,       \* parse_dump's current_id
  mtime,            \* parse_dump's mtime
  batch,            \* the batch being assembled or processed
  olds,             \* the dict olds of the batch
  n,                \* index in batch of the page the loop is at
  clock,            \* the wall clock, in runs
  runs,             \* number of processes started so far
  movie0,           \* history: table movie when the extractor was constructed
  log,              \* history: what the loop did for each page of this run
  last_end,         \* history: how the latest process ended
  dump_rel,         \* history: the dump file against the one the latest run
                    \* read: 0 the same, i > 0 page i's body edited, -1 other
  prev_end,         \* history: last_end when this extractor was constructed
  prev_rel,         \* history: dump_rel when this extractor was constructed
  files,            \* the suffixes under which the dump file exists on disk
  db_exists,        \* whether wikipedia.db exists
  reader,           \* the call of movies_documents in progress, if any
  call              \* the latest call of a function of page.py, if any

locals == <<dump_source, pages_processed, films_count, max_id, current_id,
            mtime, batch, olds, n>>
history == <<movie0, log, last_end, dump_rel, prev_end, prev_rel>>
outside == <<files, db_exists, reader, call>>
vars == <<dump_file, movie, con, pc, clock, runs, locals, history, outside>>

Running == pc \in {"constructed", "pages", "select", "loop", "commit"}
Stopped == ~Running

EmptyDict == [h \in {} |-> None]

\* source.py:19-22  the suffixes source() looks for, and the dump as downloaded.
Suffixes == {".zstd", ".bz2"}
Downloaded == {".bz2"}

\* A variant of SourceExists for an entry point that constructs the extractor
\* without looking for the dump file first.
SourceExists_unchecked(on_disk) == TRUE

\* source.py:19-26  source() returns a reader when the dump file exists under
\* one of the suffixes, and raises otherwise.
SourceExists(on_disk) == on_disk \cap Suffixes # {}

\* No call of movies_documents, no call of a function of page.py.
NoReader == [pc |-> "none"]
NoCall == [fn |-> "none"]

\* ------------------------------------------------------------- the store
Row(id, title, title_hash, text_hash, data, mt) ==
  [id |-> id, title |-> title, title_hash |-> title_hash,
   text_hash |-> text_hash, data |-> data, mtime |-> mt]

\* A variant of SelectMaxId that ignores the stored ids: the counter always
\* starts from 0.
SelectMaxId_zero(table) == 0

\* A variant of SelectMaxId that is one too high: the counter is seeded with
\* the next id and incremented again before the first insert.
SelectMaxId_next(table) ==
  IF table = {} THEN 0 ELSE Max({r.id : r \in table}) + 1

\* __init__.py:62  SELECT max(id) from movie; None becomes 0.
SelectMaxId(table) ==
  IF table = {} THEN 0 ELSE Max({r.id : r \in table})

\* A variant of SelectOlds whose lookup never finds a stored row.
SelectOlds_miss(table, title_hashes) == {}

\* __init__.py:82  SELECT title_hash, text_hash ... WHERE title_hash IN (...)
SelectOlds(table, title_hashes) ==
  {r \in table : \E k \in 1..Len(title_hashes) : title_hashes[k] = r.title_hash}

\* dict(r): one text_hash per title_hash.  SQL gives the rows in no stated
\* order, so with several rows of one title_hash any of them may come last.
Dicts(rows) ==
  {d \in [{r.title_hash : r \in rows} -> {r.text_hash : r \in rows}] :
     \A h \in DOMAIN d : \E r \in rows : r.title_hash = h /\ r.text_hash = d[h]}

\* olds.get(title_hash)
Get(d, h) == IF h \in DOMAIN d THEN Some(d[h]) ELSE None

\* A variant of UpdateMtime that replaces the table by the touched rows.
UpdateMtime_only(table, title_hash, mt) ==
  {[r EXCEPT !.mtime = mt] : r \in {q \in table : q.title_hash = title_hash}}

\* A variant of UpdateMtime without the WHERE clause: every row is touched.
UpdateMtime_all(table, title_hash, mt) == {[r EXCEPT !.mtime = mt] : r \in table}

\* A variant of UpdateMtime that writes nothing.
UpdateMtime_noop(table, title_hash, mt) == table

\* __init__.py:95  UPDATE movie SET mtime=:mtime WHERE title_hash=:id
UpdateMtime(table, title_hash, mt) ==
  {IF r.title_hash = title_hash THEN [r EXCEPT !.mtime = mt] ELSE r : r \in table}

\* __init__.py:104  INSERT INTO movie(...): id is the PRIMARY KEY.
PrimaryKeyFree(table, id) == \A r \in table : r.id # id

InsertRow(table, row) == table \cup {row}

\* __init__.py:143  self.con.commit(): what is durable after the commit.
Commit(durable, view) == view

\* A variant of Rollback for a connection in autocommit mode: every write is
\* durable at once.
Rollback_autocommit(durable, view) == view

\* Process exit without commit: the open transaction is rolled back.
Rollback(durable, view) == durable

\* A variant of Eligible without the sub-theme test.
Eligible_no_sub(text) == is_film_article(text) /\ ~is_draft(text)

\* __init__.py:156  the filter of _pages.
Eligible(text) ==
  is_film_article(text) /\ ~is_draft(text) /\ ~is_sub_theme(text)

\* itertools.batched(..., 50): a batch is handed over when it is full.
BatchFull(b) == Len(b) = BatchSize

\* ------------------------------------------------------------------- Init
\* No wikipedia.db yet (the first _init_db creates an empty table movie), a
\* dump file on disk, no process.
Init ==
  /\ dump_file \in Dumps
  /\ movie = {}
  /\ con = {}
  /\ pc = "off"
  /\ dump_source = <<>>
  /\ pages_processed = 0
  /\ films_count = 0
  /\ max_id = 0
  /\ current_id = 0
  /\ mtime = 0
  /\ batch = <<>>
  /\ olds = EmptyDict
  /\ n = 0
  /\ clock = 0
  /\ runs = 0
  /\ movie0 = {}
  /\ log = <<>>
  /\ last_end = "none"
  /\ dump_rel = -1
  /\ prev_end = "none"
  /\ prev_rel = -1
  /\ files = Downloaded
  /\ db_exists = FALSE
  /\ reader = NoReader
  /\ call = NoCall

\* ---------------------------------------------------------------- actions
\* The dump file changes between two runs, by one article at a time.
BetweenRuns ==
  /\ UNCHANGED outside
  /\ Stopped
  /\ runs < MaxRuns
  /\ dump_rel = 0
  /\ UNCHANGED <<movie, con, pc, clock, runs, locals>>
  /\ UNCHANGED <<movie0, log, last_end, prev_end, prev_rel>>

\* An article of the dump is edited: page i has another markup body.
EditPage(i, text) ==
  /\ BetweenRuns
  /\ i \in 1..Len(dump_file)
  /\ text # dump_file[i].text
  /\ Page(dump_file[i].title, text) \in Pages
  /\ dump_file' = [dump_file EXCEPT ![i].text = text]
  /\ dump_rel' = i

\* An article is gone from the next dump.
RemovePage(i) ==
  /\ BetweenRuns
  /\ i \in 1..Len(dump_file)
  /\ dump_file' = SubSeq(dump_file, 1, i - 1) \o SubSeq(dump_file, i + 1, Len(dump_file))
  /\ dump_rel' = -1

\* An article is new in the next dump.
AppendPage(page) ==
  /\ BetweenRuns
  /\ Len(dump_file) < MaxPages
  /\ dump_file' = Append(dump_file, page)
  /\ dump_rel' = -1

\* __main__.py:8 and __init__.py:36-63  source() is opened at its start and the
\* extractor is constructed: counters at 0, a connection, max_id from the table.
NewExtractor ==
  /\ Stopped
  /\ runs < MaxRuns
  /\ SourceExists(files)
  /\ db_exists' = TRUE
  /\ UNCHANGED <<files, reader, call>>
  /\ runs' = runs + 1
  /\ dump_source' = dump_file
  /\ films_count' = 0
  /\ pages_processed' = 0
  /\ con' = movie
  /\ max_id' = SelectMaxId(movie)
  /\ pc' = "constructed"
  /\ current_id' = 0
  /\ mtime' = 0
  /\ batch' = <<>>
  /\ olds' = EmptyDict
  /\ n' = 0
  /\ movie0' = movie
  /\ log' = <<>>
  /\ prev_end' = last_end
  /\ prev_rel' = dump_rel
  /\ dump_rel' = 0
  /\ last_end' = "running"
  /\ UNCHANGED <<dump_file, movie, clock>>

\* __init__.py:70-77  the start of parse_dump.
ParseDump ==
  /\ UNCHANGED outside
  /\ pc = "constructed"
  /\ current_id' = max_id
  /\ clock' = clock + 1
  /\ mtime' = clock + 1
  /\ pc' = "pages"
  /\ UNCHANGED <<dump_file, movie, con, runs, dump_source, pages_processed,
                 films_count, max_id, batch, olds, n, history>>

\* __init__.py:152-157 under batched(): one page is read from the dump.
PagesNext ==
  /\ UNCHANGED outside
  /\ pc = "pages"
  /\ dump_source # <<>>
  /\ LET page == Head(dump_source)
     IN /\ dump_source' = Tail(dump_source)
        /\ pages_processed' = pages_processed + 1
        /\ batch' = IF Eligible(page.text) THEN Append(batch, page) ELSE batch
        /\ pc' = IF BatchFull(batch') THEN "select" ELSE "pages"
  /\ UNCHANGED <<dump_file, movie, con, clock, runs, films_count, max_id,
                 current_id, mtime, olds, n, history>>

\* The dump ends with a batch that is not full: batched() hands it over.
PagesLastBatch ==
  /\ UNCHANGED outside
  /\ pc = "pages"
  /\ dump_source = <<>>
  /\ batch # <<>>
  /\ pc' = "select"
  /\ UNCHANGED <<dump_file, movie, con, clock, runs, locals, history>>

\* __init__.py:79-89  the lookup of the batch, made once before its writes.
Select ==
  /\ UNCHANGED outside
  /\ pc = "select"
  /\ LET title_hashes == [k \in 1..Len(batch) |-> hashes(<<batch[k].title>>)[1]]
     IN olds' \in Dicts(SelectOlds(con, title_hashes))
  /\ n' = 1
  /\ pc' = "loop"
  /\ UNCHANGED <<dump_file, movie, con, clock, runs, dump_source,
                 pages_processed, films_count, max_id, current_id, mtime,
                 batch, history>>

LogEntry(op, page, id) ==
  [op |-> op, title |-> page.title, text |-> page.text, id |-> id]

\* The end of one pass of the loop of line 90 that did not raise.
LoopStep ==
  /\ films_count' = films_count + 1
  /\ n' = n + 1
  /\ pc' = IF n = Len(batch) THEN "commit" ELSE "loop"

\* The statement raised: the exception leaves parse_dump and ends the
\* process; the batch's open transaction is never committed.
Raise ==
  /\ pc' = "raised"
  /\ con' = Rollback(movie, con)
  /\ last_end' = "raised"
  /\ UNCHANGED <<films_count, n>>

\* __init__.py:93-97  same fingerprint: only mtime is written.
Touch ==
  /\ UNCHANGED outside
  /\ pc = "loop"
  /\ LET page == batch[n]
         h == hashes(<<page.title, page.text>>)
     IN /\ Get(olds, h[1]) = Some(h[2])
        /\ con' = UpdateMtime(con, h[1], mtime)
        /\ log' = Append(log, LogEntry("touch", page, 0))
  /\ LoopStep
  /\ UNCHANGED <<dump_file, movie, clock, runs, dump_source, pages_processed,
                 max_id, current_id, mtime, batch, olds>>
  /\ UNCHANGED <<movie0, last_end, dump_rel, prev_end, prev_rel>>

\* __init__.py:99-115  no stored fingerprint: a new row with the next id,
\* unless the extraction of line 99 raises.
Insert ==
  /\ UNCHANGED outside
  /\ pc = "loop"
  /\ LET page == batch[n]
         h == hashes(<<page.title, page.text>>)
         film == extract_film_data(page.title, page.text)
         id_ == current_id + 1
     IN /\ Get(olds, h[1]) = None
        /\ IF extract_film_data_raises(page.title, page.text)
           THEN /\ Raise
                /\ log' = Append(log, LogEntry("extract", page, 0))
                /\ UNCHANGED current_id
           ELSE /\ current_id' = id_
                /\ log' = Append(log, LogEntry("insert", page, id_))
                /\ IF PrimaryKeyFree(con, id_)
                   THEN /\ con' = InsertRow(con, Row(id_, page.title, h[1], h[2],
                                                      json_dumps(film), mtime))
                        /\ LoopStep
                        /\ UNCHANGED last_end
                   ELSE Raise
  /\ UNCHANGED <<dump_file, movie, clock, runs, dump_source, pages_processed,
                 max_id, mtime, batch, olds>>
  /\ UNCHANGED <<movie0, dump_rel, prev_end, prev_rel>>

\* __init__.py:116-130  another fingerprint is stored.  The statement reads
\* UPDATE movie SET ... SET ... SET ... WHERE ...: SQLite refuses it (near
\* "SET": syntax error) and execute raises sqlite3.OperationalError.
Update ==
  /\ UNCHANGED outside
  /\ pc = "loop"
  /\ LET page == batch[n]
         h == hashes(<<page.title, page.text>>)
     IN /\ Get(olds, h[1]) # None
        /\ Get(olds, h[1]) # Some(h[2])
        /\ log' = Append(log, LogEntry("update", page, 0))
  /\ Raise
  /\ UNCHANGED <<dump_file, movie, clock, runs, dump_source, pages_processed,
                 max_id, current_id, mtime, batch, olds>>
  /\ UNCHANGED <<movie0, dump_rel, prev_end, prev_rel>>

\* __init__.py:143  the commit that ends a batch.
CommitBatch ==
  /\ UNCHANGED outside
  /\ pc = "commit"
  /\ movie' = Commit(movie, con)
  /\ batch' = <<>>
  /\ olds' = EmptyDict
  /\ n' = 0
  /\ pc' = "pages"
  /\ UNCHANGED <<dump_file, con, clock, runs, dump_source, pages_processed,
                 films_count, max_id, current_id, mtime, history>>

\* __init__.py:145-150  the dump is exhausted: last commit, and the summary.
Finish ==
  /\ UNCHANGED outside
  /\ pc = "pages"
  /\ dump_source = <<>>
  /\ batch = <<>>
  /\ movie' = Commit(movie, con)
  /\ pc' = "done"
  /\ last_end' = "done"
  /\ UNCHANGED <<dump_file, con, clock, runs, locals>>
  /\ UNCHANGED <<movie0, log, dump_rel, prev_end, prev_rel>>

\* The process is terminated from outside (crash, kill, power loss) at any
\* point of a run: its memory is gone, the open transaction is rolled back.
Kill ==
  /\ UNCHANGED outside
  /\ Running
  /\ pc' = "killed"
  /\ con' = Rollback(movie, con)
  /\ last_end' = "killed"
  /\ dump_source' = <<>>
  /\ pages_processed' = 0
  /\ films_count' = 0
  /\ max_id' = 0
  /\ current_id' = 0
  /\ mtime' = 0
  /\ batch' = <<>>
  /\ olds' = EmptyDict
  /\ n' = 0
  /\ log' = <<>>
  /\ UNCHANGED <<dump_file, movie, clock, runs>>
  /\ UNCHANGED <<movie0, dump_rel, prev_end, prev_rel>>

Next ==
  \/ \E i \in 1..MaxPages, text \in {p.text : p \in Pages} : EditPage(i, text)
  \/ \E i \in 1..MaxPages : RemovePage(i)
  \/ \E page \in Pages : AppendPage(page)
  \/ NewExtractor
  \/ ParseDump
  \/ PagesNext
  \/ PagesLastBatch
  \/ Select
  \/ Touch
  \/ Insert
  \/ Update
  \/ CommitBatch
  \/ Finish
  \/ Kill

Spec == Init /\ [][Next]_vars

\* ------------------------------------------- the classifier's own corpus
\* A second specification: one run over dumps whose pages carry every kind
\* of marker the classifier looks at.
InitPages ==
  /\ dump_file \in SeqsUpTo(ClassifierPages, MaxPages)
  /\ movie = {}
  /\ con = {}
  /\ pc = "off"
  /\ dump_source = <<>>
  /\ pages_processed = 0
  /\ films_count = 0
  /\ max_id = 0
  /\ current_id = 0
  /\ mtime = 0
  /\ batch = <<>>
  /\ olds = EmptyDict
  /\ n = 0
  /\ clock = 0
  /\ runs = MaxRuns - 1
  /\ movie0 = {}
  /\ log = <<>>
  /\ last_end = "none"
  /\ dump_rel = -1
  /\ prev_end = "none"
  /\ prev_rel = -1
  /\ files = Downloaded
  /\ db_exists = FALSE
  /\ reader = NoReader
  /\ call = NoCall

NextPages ==
  \/ NewExtractor
  \/ ParseDump
  \/ PagesNext
  \/ PagesLastBatch
  \/ Select
  \/ Touch
  \/ Insert
  \/ Update
  \/ CommitBatch
  \/ Finish
  \/ Kill

SpecPages == InitPages /\ [][NextPages]_vars

\* ------------------------------------------------ the main entry point
\* A third specification: the entry point __main__.py started with or without
\* a dump file on disk, and movies_documents reading the store it fills.
MainPages == {Page(T_A, B_Film1998), Page(T_A_film, B_Film)}
\* The dumps the entry point is started on: none, one or two of these pages.
MainDumps == UNION {[1..j -> MainPages] : j \in 0..Cardinality(MainPages)}

\* __main__.py:8  source() raises: the process ends before the extractor is
\* constructed.
SourceMissing ==
  /\ Stopped
  /\ runs < MaxRuns
  /\ ~SourceExists(files)
  /\ runs' = runs + 1
  /\ pc' = "raised"
  /\ last_end' = "raised"
  /\ UNCHANGED <<dump_file, movie, con, clock, locals, outside>>
  /\ UNCHANGED <<movie0, log, dump_rel, prev_end, prev_rel>>

\* __init__.py:172  json.loads(movie): the record a serialized payload stands for.
json_loads(data) == data[2]

RECURSIVE str_int(_)
\* str() of a natural number: its decimal digits.
str_int(v) ==
  IF v < 10 THEN <<Digits[v + 1]>> ELSE str_int(v \div 10) \o <<Digits[(v % 10) + 1]>>

\* __init__.py:175  f"{title} {movie['year']}"
format_title(title, year) ==
  title \o <<" ">> \o (IF year = None THEN Chars("None") ELSE str_int(year[1]))

\* A variant of DocumentIndex that numbers a document by its row's id.
DocumentIndex_id(i, row) == row.id

\* __init__.py:181  the first component of a triple is the counter i.
DocumentIndex(i, row) == i

\* __init__.py:172-181  the triple yielded for a row when the counter is at i.
Document(i, row) ==
  LET film == json_loads(row.data)
  IN <<DocumentIndex(i, row),
       film.synopsis,
       [title |-> format_title(row.title, film.year), genre |-> film.genre,
        duration |-> film.duration_minutes, year |-> film.year,
        imdb |-> film.imdb_id]>>

\* The orders in which a SELECT without ORDER BY may give the rows of a table.
Orders(table) ==
  {o \in [1..Cardinality(table) -> table] :
     \A j, k \in 1..Cardinality(table) : j # k => o[j] # o[k]}

\* __init__.py:163-166  movies_documents is called: a connection of its own,
\* and the count of the committed rows.
MoviesDocuments ==
  /\ reader.pc = "none"
  /\ db_exists
  /\ reader' = [pc |-> "counted", total |-> Cardinality(movie), counted |-> movie,
                selected |-> {}, rows |-> <<>>, i |-> 0, yielded |-> <<>>,
                read |-> <<>>]
  /\ UNCHANGED <<dump_file, movie, con, pc, clock, runs, locals, history>>
  /\ UNCHANGED <<files, db_exists, call>>

\* __init__.py:165  There is no table movie yet: the count raises
\* sqlite3.OperationalError (no such table).
MoviesDocumentsNoTable ==
  /\ reader.pc = "none"
  /\ ~db_exists
  /\ reader' = [pc |-> "raised"]
  /\ UNCHANGED <<dump_file, movie, con, pc, clock, runs, locals, history>>
  /\ UNCHANGED <<files, db_exists, call>>

\* __init__.py:169-170  the first next() of the generator: i = 0 and the SELECT
\* over the rows committed by then.
DocumentsSelect ==
  /\ reader.pc = "counted"
  /\ \E o \in Orders(movie) :
       reader' = [reader EXCEPT !.pc = "iterating", !.selected = movie,
                                !.rows = o, !.i = 0]
  /\ UNCHANGED <<dump_file, movie, con, pc, clock, runs, locals, history>>
  /\ UNCHANGED <<files, db_exists, call>>

\* __init__.py:171-182  one pass of the loop: a triple is yielded, then i += 1.
DocumentsYield ==
  /\ reader.pc = "iterating"
  /\ reader.rows # <<>>
  /\ reader' = [reader EXCEPT
                  !.yielded = Append(@, Document(reader.i, Head(reader.rows))),
                  !.read = Append(@, Head(reader.rows)),
                  !.rows = Tail(@),
                  !.i = @ + 1]
  /\ UNCHANGED <<dump_file, movie, con, pc, clock, runs, locals, history>>
  /\ UNCHANGED <<files, db_exists, call>>

\* The cursor is exhausted: the generator ends.
DocumentsEnd ==
  /\ reader.pc = "iterating"
  /\ reader.rows = <<>>
  /\ reader' = [reader EXCEPT !.pc = "exhausted"]
  /\ UNCHANGED <<dump_file, movie, con, pc, clock, runs, locals, history>>
  /\ UNCHANGED <<files, db_exists, call>>

\* The dump file may be missing, and wikipedia.db may be there already with an
\* empty table (left by a run over a dump without films).
InitMain ==
  /\ files \in SUBSET Suffixes
  /\ dump_file \in IF SourceExists(files) THEN MainDumps ELSE {<<>>}
  /\ db_exists \in BOOLEAN
  /\ movie = {}
  /\ con = {}
  /\ pc = "off"
  /\ dump_source = <<>>
  /\ pages_processed = 0
  /\ films_count = 0
  /\ max_id = 0
  /\ current_id = 0
  /\ mtime = 0
  /\ batch = <<>>
  /\ olds = EmptyDict
  /\ n = 0
  /\ clock = 0
  /\ runs = 0
  /\ movie0 = {}
  /\ log = <<>>
  /\ last_end = "none"
  /\ dump_rel = -1
  /\ prev_end = "none"
  /\ prev_rel = -1
  /\ reader = NoReader
  /\ call = NoCall

\* (No page of MainPages has two bodies: Update is never enabled here.)
NextMain ==
  \/ SourceMissing
  \/ NewExtractor
  \/ ParseDump
  \/ PagesNext
  \/ PagesLastBatch
  \/ Select
  \/ Touch
  \/ Insert
  \/ CommitBatch
  \/ Finish
  \/ Kill
  \/ MoviesDocuments
  \/ MoviesDocumentsNoTable
  \/ DocumentsSelect
  \/ DocumentsYield
  \/ DocumentsEnd

SpecMain == InitMain /\ [][NextMain]_vars

\* ------------------------------------------- the functions of page.py, called
\* A fourth specification: each function of page.py is applied to an input
\* drawn from a set of markups, once in a behaviour, and call keeps the input
\* and the outcome.
\* The markups are made of at most MaxTokens pieces.
MaxTokens == 2

RECURSIVE Concat(_)
Concat(ss) == IF ss = <<>> THEN <<>> ELSE Head(ss) \o Concat(Tail(ss))

Texts(tokens) == {Concat(ss) : ss \in SeqsUpTo(tokens, MaxTokens)}

\* Infobox fields: durations short and long, years numeric or not, lists.
FieldTokens ==
  {Chars("\n|durée=123456"), Chars("\n|durée=95 min"), Chars("\n|année=mcmxc"),
   Chars("\n|année=1998"), Chars("\n|genre=aa, bb"),
   Chars("\n|acteur=aa,bb,cc,dd,ee,ff,gg,hh,ii,jj,kk,ll")}
FilmTexts ==
  {Chars("{{Infobox Film") \o t \o Chars("\n}}") : t \in Texts(FieldTokens)}
    \cup {B_Plain}

\* What is searched in the full markup: the three forms of an IMDb id, the
\* template of the english title and a synopsis section.
LinkTokens ==
  {Chars("{{IMDb titre|id=12}}"), Chars(" imdb.com/title/tt34 "),
   Chars("\n|IMDb = tt56"), Chars("{{Titre en langue|en|Ab}}"),
   Chars("\n== Synopsis ==\nabcdefg\n")}
\* Markups that start with an infobox, with an infobox that is never closed,
\* and with none.
B_Unclosed == Chars("{{Infobox Film|année=1998}}")
LinkTexts ==
  {head \o t : head \in {B_Film1998, B_Unclosed, <<>>}, t \in Texts(LinkTokens)}

T_A_telefilm == Chars("A (téléfilm 2)")

SynopsisTokens ==
  {Chars("abcdefgh"), Chars("abcdefg. "), Chars("[[x|ij]] "), Chars("''k'' "),
   Chars("<ref>r</ref>")}

ListTokens ==
  {Chars("ab"), Chars(","), Chars("[[b]]"), Chars("''"), Chars("<br>"),
   Chars(" - c d")}
\* page_test.py:20  the input of test_parse_list.
S_test_parse_list == Chars("[[Lem Dobbs]]<br>[[David S. Goyer]]<br>Alex Proyas")
ListInputs ==
  {Some(t) : t \in Texts(ListTokens) \cup {S_test_parse_list}} \cup {None}

SectionTokens ==
  {Chars("== Synopsis ==\nab\n"), Chars("== Résumé ==\nabcdefg\n"),
   Chars("== Histoire ==\nhijklmn\n"), Chars("==Scénario==\n''xy''\n"),
   Chars("== Autre ==\nzzzzzzz\n")}

\* The markups of the classifier, and each of them in lower case and in
\* upper case.
Lowered(text) == [i \in 1..Len(text) |-> Lower(text[i])]
Upper(c) ==
  IF \E k \in 1..Len(LowerLetters) : LowerLetters[k] = c
  THEN UpperLetters[CHOOSE k \in 1..Len(LowerLetters) : LowerLetters[k] = c]
  ELSE c
Uppered(text) == [i \in 1..Len(text) |-> Upper(text[i])]
ClassifierTexts ==
  {p.text : p \in ClassifierPages}
    \cup {Lowered(p.text) : p \in ClassifierPages}
    \cup {Uppered(p.text) : p \in ClassifierPages}

Returned(fn, arg, ret) == [fn |-> fn, arg |-> arg, raised |-> FALSE, ret |-> ret]
Raised(fn, arg) == [fn |-> fn, arg |-> arg, raised |-> TRUE, ret |-> None]

Called == UNCHANGED <<dump_file, movie, con, pc, clock, runs, locals, history,
                      files, db_exists, reader>>

\* page.py:54  extract_film_data(title, text)
ExtractFilmData(title, text) ==
  /\ call = NoCall
  /\ call' = IF extract_film_data_raises(title, text)
             THEN Raised("extract_film_data", <<title, text>>)
             ELSE Returned("extract_film_data", <<title, text>>,
                           extract_film_data(title, text))
  /\ Called

\* page.py:233  clean_synopsis(synopsis)
CleanSynopsis(text) ==
  /\ call = NoCall
  /\ call' = Returned("clean_synopsis", text, clean_synopsis(text))
  /\ Called

\* page.py:314  parse_list(text)
ParseList(text) ==
  /\ call = NoCall
  /\ call' = Returned("parse_list", text, ParseListOpt(text))
  /\ Called

\* page.py:193  extract_synopsis(text)
ExtractSynopsis(text) ==
  /\ call = NoCall
  /\ call' = Returned("extract_synopsis", text, extract_synopsis(text))
  /\ Called

\* page.py:6  is_draft(text)
IsDraft(text) ==
  /\ call = NoCall
  /\ call' = Returned("is_draft", text, is_draft(text))
  /\ Called

\* page.py:10  is_sub_theme(text)
IsSubTheme(text) ==
  /\ call = NoCall
  /\ call' = Returned("is_sub_theme", text, is_sub_theme(text))
  /\ Called

\* page.py:24  is_film_article(text)
IsFilmArticle(text) ==
  /\ call = NoCall
  /\ call' = Returned("is_film_article", text, is_film_article(text))
  /\ Called

InitText == Init /\ dump_file = <<>>

NextText ==
  \/ \E title \in {T_A, T_A_film, T_A_telefilm}, text \in FilmTexts \cup LinkTexts :
       ExtractFilmData(title, text)
  \/ \E text \in Texts(SynopsisTokens) : CleanSynopsis(text)
  \/ \E text \in ListInputs : ParseList(text)
  \/ \E text \in Texts(SectionTokens) : ExtractSynopsis(text)
  \/ \E text \in ClassifierTexts : IsDraft(text)
  \/ \E text \in ClassifierTexts : IsSubTheme(text)
  \/ \E text \in ClassifierTexts : IsFilmArticle(text)

SpecText == InitText /\ [][NextText]_vars

\* ----------------------------------------------------- claim vocabulary
\* A row without its mtime.
Proj(r) ==
  [id |-> r.id, title |-> r.title, title_hash |-> r.title_hash,
   text_hash |-> r.text_hash, data |-> r.data]
ProjOf(table) == {Proj(r) : r \in table}

NoDupTitleHash(table) ==
  \A r1, r2 \in table : r1.title_hash = r2.title_hash => r1 = r2
NoDupId(table) == \A r1, r2 \in table : r1.id = r2.id => r1 = r2

IdsOfTitle(table, title) == {r.id : r \in {q \in table : q.title = title}}
RowKeys(table) == {<<r.id, r.title_hash>> : r \in table}
TitleHashes(table) == {r.title_hash : r \in table}

DistinctTitles(dump) ==
  \A i, j \in 1..Len(dump) : dump[i].title = dump[j].title => i = j

\* The eligibility condition of the specification, spelt out.
IsEligible(text) ==
  is_film_article(text) /\ ~is_draft(text) /\ ~is_sub_theme(text)

\* Page i is the last eligible page of its title in the dump.
LastEligible(dump, i) ==
  /\ IsEligible(dump[i].text)
  /\ \A j \in (i + 1)..Len(dump) :
       ~(IsEligible(dump[j].text) /\ dump[j].title = dump[i].title)

\* The row a page stands for, whatever its id and mtime.
RowOfPage(table, page) ==
  {r \in table :
     /\ r.title_hash = hashes(<<page.title>>)[1]
     /\ r.text_hash = hashes(<<page.text>>)[1]
     /\ r.title = page.title
     /\ r.data = json_dumps(extract_film_data(page.title, page.text))}

\* The dump file is still the one the current or latest run was started on.
SameDump == dump_rel = 0

\* ----------------------------------------------------------------- claims
\* C1 (as claimed): a run over the dump a completed run has just read takes
\* the touch branch for every page, performs no insert and no update, and
\* leaves ids, titles, fingerprints and payloads as the first run left them.
Idempotence ==
  (prev_end = "done" /\ prev_rel = 0 /\ pc \in {"pages", "select", "loop",
                                               "commit", "done", "raised"})
  => /\ \A k \in 1..Len(log) : log[k].op = "touch"
     /\ pc # "raised"
     /\ pc = "done" => ProjOf(movie) = ProjOf(movie0)

\* C2 (as claimed): when exactly one stored title's body was edited between
\* a completed run and the next, after that next run the title's row holds
\* the new content fingerprint and the new payload under its old id, and no
\* other row has changed.
ChangeDetection ==
  (/\ prev_end = "done"
   /\ prev_rel > 0
   /\ SameDump
   /\ pc \in {"done", "raised"}
   /\ DistinctTitles(dump_file)
   /\ IsEligible(dump_file[prev_rel].text)
   /\ \E r \in movie0 : r.title = dump_file[prev_rel].title)
  => LET page == dump_file[prev_rel]
     IN /\ \A r \in movie0 :
             IF r.title = page.title
             THEN \E q \in RowOfPage(movie, page) : q.id = r.id
             ELSE Proj(r) \in ProjOf(movie)
        /\ Cardinality(movie) = Cardinality(movie0)

\* C3: once a title is committed with an id, the ids of that title's rows in
\* the committed table never change again, whatever later runs read.
IdentityStable ==
  [][\A r \in movie : IdsOfTitle(movie', r.title) = IdsOfTitle(movie, r.title)]_vars

\* C3 witness: a later run has completed in which one stored title was seen
\* again unchanged and another stored title was absent from the dump.
IdentityStableWitness ==
  /\ pc = "done"
  /\ SameDump
  /\ \E r \in movie0 :
       /\ \E k \in 1..Len(log) : log[k].op = "touch" /\ log[k].title = r.title
       /\ r.id \in IdsOfTitle(movie, r.title)
  /\ \E r \in movie0 :
       /\ \A i \in 1..Len(dump_file) : dump_file[i].title # r.title
       /\ r.id \in IdsOfTitle(movie, r.title)

\* C4 (as claimed): no two rows of the committed table movie have the same
\* title_hash.
UniqueTitleHash == NoDupTitleHash(movie)

\* C5 (as claimed): after completed runs, each row's text_hash is the
\* fingerprint of the body most recently observed for its title.
FingerprintFresh ==
  (pc = "done" /\ SameDump /\ prev_end \in {"none", "done"})
  => \A i \in 1..Len(dump_file) :
       LastEligible(dump_file, i)
       => \A r \in movie :
            r.title_hash = hashes(<<dump_file[i].title>>)[1]
            => r.text_hash = hashes(<<dump_file[i].text>>)[1]

\* C6: no step removes a row: the committed table only grows, and so does
\* the connection's view while the process lives.
NoDeletion ==
  [][/\ RowKeys(movie) \subseteq RowKeys(movie')
     /\ (Running /\ Running') => RowKeys(con) \subseteq RowKeys(con')]_vars

\* C6 witness: a run has completed over a dump from which a stored title is
\* missing, and the title's row is still there.
NoDeletionWitness ==
  /\ pc = "done"
  /\ SameDump
  /\ log # <<>>
  /\ \E r \in movie0 :
       /\ \A i \in 1..Len(dump_file) : dump_file[i].title # r.title
       /\ r.title_hash \in TitleHashes(movie)

\* C7: the committed table changes only by the commit that ends a batch (or
\* the run); a batch has at most BatchSize pages; whenever the next batch is
\* about to be read everything written so far is committed; and while a batch
\* is processed, or when the process stops, nothing of it is committed.
BatchAtomicity ==
  [][/\ movie' # movie => (pc = "commit" \/ (pc = "pages" /\ pc' = "done"))
     /\ pc = "commit" => movie' = con \/ pc' = "killed"
     /\ pc' = "pages" => movie' = con'
     /\ Len(batch') <= BatchSize
     /\ n' <= Len(batch') + 1
     /\ pc' \in {"select", "loop", "commit", "raised", "killed"} => movie' = movie
     /\ pc' \in {"raised", "killed"} => con' = movie]_vars

\* C7 witness: a later batch of a run is processed and not yet committed,
\* while an earlier batch of the same run is already in the committed table.
BatchAtomicityWitness ==
  /\ pc = "commit"
  /\ con # movie
  /\ movie # movie0
  /\ RowKeys(movie0) \subseteq RowKeys(movie)

\* C8 (as claimed): after a killed run, a new extractor run over the same
\* dump ends with a table without duplicate title_hash or id that holds, for
\* every eligible title, one row with the fingerprint and payload of its body.
Resumable ==
  (prev_end = "killed" /\ prev_rel = 0 /\ SameDump /\ pc \in {"done", "raised"})
  => /\ pc = "done"
     /\ NoDupTitleHash(movie)
     /\ NoDupId(movie)
     /\ \A i \in 1..Len(dump_file) :
          LastEligible(dump_file, i)
          => /\ RowOfPage(movie, dump_file[i]) # {}
             /\ \A r \in movie :
                  r.title = dump_file[i].title => r \in RowOfPage(movie, dump_file[i])

\* C9: every insert takes an id above every id the table held when the
\* extractor was constructed and above every id inserted earlier in the run;
\* no id is on two rows; the counter starts from max(id), 0 for an empty table.
IdentityAssignment ==
  /\ \A k \in 1..Len(log) :
       log[k].op = "insert"
       => /\ log[k].id > 0
          /\ \A r \in movie0 : log[k].id > r.id
          /\ \A j \in 1..(k - 1) : log[j].op = "insert" => log[k].id > log[j].id
  /\ NoDupId(movie)
  /\ NoDupId(con)
  /\ Running => max_id = (IF movie0 = {} THEN 0 ELSE Max({r.id : r \in movie0}))
  /\ pc \in {"pages", "select", "loop", "commit"} => current_id >= max_id

\* C9 witness: a run that found rows in the table has inserted a new row.
IdentityAssignmentWitness ==
  /\ movie0 # {}
  /\ \E k \in 1..Len(log) :
       /\ log[k].op = "insert"
       /\ \E r \in con : r.id = log[k].id /\ r.title = log[k].title

\* The pages of the batch that the loop has not handled yet.
Pending == SubSeq(batch, IF n = 0 THEN 1 ELSE n, Len(batch))
\* The pages the loop has handled in this run.
Reached == [k \in 1..Len(log) |-> Page(log[k].title, log[k].text)]
\* The pages read so far from the dump.
ReadSoFar == SubSeq(dump_file, 1, pages_processed)
IsEligiblePage(p) == IsEligible(p.text)

\* C10: the pages that reach the loop are exactly the pages read for which
\* is_film_article holds and is_draft and is_sub_theme do not, in document
\* order; pages_processed counts every page read, eligible or not.
EligibilityFilter ==
  (SameDump /\ pc \in {"pages", "select", "loop", "commit", "done", "raised"})
  => /\ pages_processed = Len(dump_file) - Len(dump_source)
     /\ dump_source = SubSeq(dump_file, pages_processed + 1, Len(dump_file))
     /\ pc # "raised" => Reached \o Pending = SelectSeq(ReadSoFar, IsEligiblePage)
     /\ pc = "raised" =>
          Reached = SubSeq(SelectSeq(ReadSoFar, IsEligiblePage), 1, Len(log))
     /\ pc = "done" => pages_processed = Len(dump_file)

\* C10 witness: a run has completed that read a stored film page, a draft of
\* a film and a sub-theme page, and only the first reached the loop.
EligibilityFilterWitness ==
  /\ pc = "done"
  /\ SameDump
  /\ Len(log) = 1
  /\ pages_processed = 3
  /\ \E i \in 1..Len(dump_file) :
       is_film_article(dump_file[i].text) /\ is_draft(dump_file[i].text)
  /\ \E i \in 1..Len(dump_file) : is_sub_theme(dump_file[i].text)
  /\ \E r \in movie : r.title = log[1].title

\* page.py:72-87  the fourteen keys of a film record.
FilmKeys ==
  {"title", "original_title", "english_title", "director", "year", "country",
   "genre", "duration_minutes", "actors", "writer", "producer", "budget",
   "imdb_id", "synopsis"}

\* C11: extract_film_data is total: whatever the title and the markup, it
\* returns a record with all fourteen keys and never raises.
ExtractionTotal ==
  call.fn = "extract_film_data"
  => /\ ~call.raised
     /\ DOMAIN call.ret = FilmKeys

\* The last "." among the first SynopsisMax characters, as rfind gives it.
SentenceEnd(cleaned) == rfind(cleaned, ".", SynopsisMax)

\* C13: a synopsis whose cleaned text is longer than the limit comes back with
\* at most the limit's length: cut after the last "." before the limit when
\* that is past half the limit, else cut hard and marked with an ellipsis.
SynopsisTruncation ==
  (call.fn = "clean_synopsis"
     /\ Len(clean_synopsis_markup(call.arg)) > SynopsisMax)
  => /\ Len(call.ret) <= SynopsisMax
     /\ IF SentenceEnd(clean_synopsis_markup(call.arg)) > SynopsisHalf
        THEN call.ret = SubSeq(clean_synopsis_markup(call.arg), 1,
                               SentenceEnd(clean_synopsis_markup(call.arg)) + 1)
        ELSE SubSeq(call.ret, Len(call.ret) - 2, Len(call.ret)) = Chars("...")

\* C14: the actors of an extracted record are at most 10, whatever the markup.
ActorCap ==
  (call.fn = "extract_film_data" /\ ~call.raised)
  => Len(call.ret.actors) <= 10

\* C15: parse_list gives no empty piece and no piece of a single character;
\* None gives the empty list; the pieces of the test's fragment are the three
\* names in their order.
ListSplitting ==
  call.fn = "parse_list"
  => /\ call.arg = None => call.ret = <<>>
     /\ \A k \in 1..Len(call.ret) : Len(call.ret[k]) > 1
     /\ call.arg = Some(S_test_parse_list)
        => call.ret = <<Chars("Lem Dobbs"), Chars("David S. Goyer"),
                        Chars("Alex Proyas")>>

\* The headings of a synopsis, in the order in which they are to be tried.
HeadingOrder ==
  <<Chars("Synopsis"), Chars("Résumé"), Chars("Histoire"), Chars("Intrigue"),
    Chars("Scénario")>>

\* The cleaned text of the first section of text under heading number k of
\* HeadingOrder; None when the text has no such section.
CleanedSection(text, k) ==
  LET m == Search(R_section_pre(HeadingOrder[k]), R_section_grp, R_section_post,
                  text, 1, IgnoreCaseDotAll)
  IN IF m = <<>> THEN None ELSE Some(clean_synopsis(Group(text, m)))

\* The headings whose cleaned section has at least SynopsisMin characters.
Qualifying(text) ==
  {k \in 1..Len(HeadingOrder) :
     CleanedSection(text, k) # None /\ Len(CleanedSection(text, k)[1]) >= SynopsisMin}

\* C16: extract_synopsis returns the cleaned section of the first heading, in
\* the order Synopsis, Résumé, Histoire, Intrigue, Scénario, whose cleaned
\* text has at least the minimal length, and None when no heading qualifies:
\* a returned synopsis is never shorter than the minimal length.
SynopsisSelection ==
  call.fn = "extract_synopsis"
  => /\ Qualifying(call.arg) = {} => call.ret = None
     /\ Qualifying(call.arg) # {}
        => /\ call.ret = CleanedSection(call.arg, Min(Qualifying(call.arg)))
           /\ Len(call.ret[1]) >= SynopsisMin

\* C16 witness: the section of an earlier heading was rejected for being too
\* short and the section of a later heading was returned.
SynopsisSelectionWitness ==
  /\ call.fn = "extract_synopsis"
  /\ call.ret # None
  /\ \E j, k \in 1..Len(HeadingOrder) :
       /\ j < k
       /\ CleanedSection(call.arg, j) # None
       /\ Len(CleanedSection(call.arg, j)[1]) < SynopsisMin
       /\ call.ret = CleanedSection(call.arg, k)

\* The answer of the classifier predicate named fn.
Answer(fn, text) ==
  CASE fn = "is_draft" -> is_draft(text)
    [] fn = "is_sub_theme" -> is_sub_theme(text)
    [] fn = "is_film_article" -> is_film_article(text)

\* C18: each classifier predicate gives the same answer for a markup and for
\* the same markup with its letters in another case.
CaseInsensitiveMarkers ==
  call.fn \in {"is_draft", "is_sub_theme", "is_film_article"}
  => call.ret = Answer(call.fn, Lowered(call.arg))

\* C12: while neither dump file is on disk, starting the entry point only
\* raises: the store is neither created nor written, no extractor is
\* constructed, no page is read and nothing reaches the loop.
MissingSourceFatal ==
  [][(files \cap {".zstd", ".bz2"} = {})
     => /\ db_exists' = db_exists
        /\ movie' = movie
        /\ con' = con
        /\ pages_processed' = pages_processed
        /\ dump_source' = dump_source
        /\ log' = log
        /\ pc' # "constructed"
        /\ runs' # runs => pc' = "raised" /\ last_end' = "raised"]_vars

\* C12 witness: the entry point was started without a dump file and raised,
\* and there is still no store.
MissingSourceFatalWitness ==
  /\ files \cap {".zstd", ".bz2"} = {}
  /\ runs > 0
  /\ pc = "raised"
  /\ last_end = "raised"
  /\ ~db_exists

\* C17: the triples yielded so far are numbered 0, 1, 2, ... in the order of
\* their yield, each is made of one selected row and no row gives two; once
\* the generator is exhausted every selected row has given its triple, and
\* the total returned with the generator is their number when the table was
\* the same at the count and at the select.
Enumeration ==
  reader.pc \in {"iterating", "exhausted"}
  => /\ Len(reader.read) = Len(reader.yielded)
     /\ \A k \in 1..Len(reader.yielded) :
          /\ reader.yielded[k][1] = k - 1
          /\ reader.read[k] \in reader.selected
          /\ reader.yielded[k][2] = reader.read[k].data[2].synopsis
     /\ \A j, k \in 1..Len(reader.read) : j # k => reader.read[j] # reader.read[k]
     /\ reader.pc = "exhausted"
        => /\ {reader.read[k] : k \in 1..Len(reader.read)} = reader.selected
           /\ reader.counted = reader.selected
              => reader.total = Len(reader.yielded)

\* C17 witness: the generator is exhausted after two or more rows of a table
\* that did not change since the count, and a row's id is not its number.
EnumerationWitness ==
  /\ reader.pc = "exhausted"
  /\ Len(reader.yielded) >= 2
  /\ reader.counted = reader.selected
  /\ reader.total = 2
  /\ \E k \in 1..Len(reader.read) : reader.read[k].id # reader.yielded[k][1]

\* C19: a step that takes the touch branch for a page writes the run's mtime
\* on the rows of the page's title, which is stored, and nothing else: every
\* other column of these rows and every other row stay as they were, and
\* nothing is committed by the step.
TouchFrame ==
  [][(Len(log') = Len(log) + 1 /\ log'[Len(log')].op = "touch")
     => /\ \E r \in con : r.title = log'[Len(log')].title
        /\ con' = {IF r.title = log'[Len(log')].title
                   THEN [r EXCEPT !.mtime = mtime] ELSE r : r \in con}
        /\ movie' = movie]_vars

\* C19 witness: a page was touched in a run that found its row with an older
\* mtime, while the row of another title still has the older mtime.
TouchFrameWitness ==
  /\ pc \in {"loop", "commit"}
  /\ \E k \in 1..Len(log) :
       /\ log[k].op = "touch"
       /\ \E r \in con, r0 \in movie, q \in con :
            /\ r.title = log[k].title
            /\ r.mtime = mtime
            /\ r0.mtime # mtime
            /\ r = [r0 EXCEPT !.mtime = mtime]
            /\ q.title # r.title
            /\ q.mtime # mtime
            /\ q \in movie

\* The titles of the eligible pages the run has observed.
Observed == {log[k].title : k \in 1..Len(log)}

\* C20: when a run has completed, every row of a title the run observed has
\* the run's mtime, the one timestamp taken at its start, and every other row
\* is as it was when the run began.
LastSeen ==
  pc = "done"
  => /\ mtime = clock
     /\ \A r \in movie :
          IF r.title \in Observed THEN r.mtime = mtime ELSE r \in movie0

\* C20 witness: a completed run has touched a row stored by an earlier run,
\* and the row of a title it did not observe keeps its earlier mtime.
LastSeenWitness ==
  /\ pc = "done"
  /\ \E k \in 1..Len(log) :
       /\ log[k].op = "touch"
       /\ \E r \in movie, r0 \in movie0 :
            r.title = log[k].title /\ r.id = r0.id /\ r.mtime = mtime /\ r0.mtime # mtime
  /\ \E q \in movie : q.title \notin Observed /\ q.mtime # mtime /\ q \in movie0

\* The page the loop is at.
PageAt == batch[n]

\* The rows the store holds for the title of the page the loop is at, as
\* committed when the batch was looked up.
StoredForPage == {r \in movie : r.title_hash = hashes(<<PageAt.title>>)[1]}

\* The loop has handled one more page in this step.
PageHandled == pc = "loop" /\ Len(log') = Len(log) + 1

\* The step has called extract_film_data (line 99): every branch but the touch.
ExtractorRan == log'[Len(log')].op # "touch"

\* C21 (as claimed): the loop calls extract_film_data for a page exactly when
\* the store has no row of the page's title with the page's content
\* fingerprint; a page whose fingerprint is stored is only touched, and the
\* payloads of its title's rows are kept.
ExtractionOnlyOnChange ==
  [][PageHandled
     => /\ ExtractorRan
           <=> \A r \in StoredForPage : r.text_hash # hashes(<<PageAt.text>>)[1]
        /\ ~ExtractorRan
           => {r.data : r \in {q \in con' : q.title = PageAt.title}}
                = {r.data : r \in StoredForPage}]_vars

\* match.group(1) of method number k of the IMDb id on the full markup: 1 the
\* IMDb-title template, 2 the imdb.com/title URL, 3 the IMDb= field.
ImdbCapture(text, k) ==
  GroupOrNone(Search(imdb_patterns[k].pre, imdb_patterns[k].grp, Empty, text, 1,
                     IgnoreCase), text)

\* The methods that match somewhere in the markup.
ImdbMatching(text) == {k \in 1..3 : ImdbCapture(text, k) # None}

\* The call of extract_film_data has returned a record.
FilmReturned == call.fn = "extract_film_data" /\ ~call.raised

\* C22 (as claimed): the imdb_id of the record extract_film_data returns is
\* the capture of the first of the three methods that matches in the markup,
\* and it is absent only if none of the three matches.
ImdbFallbackOrder ==
  FilmReturned
  => call.ret.imdb_id = (IF ImdbMatching(call.arg[2]) = {} THEN None
                         ELSE ImdbCapture(call.arg[2], Min(ImdbMatching(call.arg[2]))))

\* C22 (amended): when the markup has an infobox block, the imdb_id of the
\* record is the capture of the first of the three methods that matches in the
\* markup, whatever the later methods would capture, and it is absent only if
\* none of the three matches.
ImdbFallbackOrderInfobox ==
  (FilmReturned /\ infobox_content(call.arg[2]) # None)
  => call.ret.imdb_id = (IF ImdbMatching(call.arg[2]) = {} THEN None
                         ELSE ImdbCapture(call.arg[2], Min(ImdbMatching(call.arg[2]))))

\* C22 witness: the URL comes before the template in the markup, both match
\* with different captures, and the record has the template's.
ImdbFallbackOrderWitness ==
  /\ FilmReturned
  /\ infobox_content(call.arg[2]) # None
  /\ ImdbMatching(call.arg[2]) = {1, 2}
  /\ ImdbCapture(call.arg[2], 1) # ImdbCapture(call.arg[2], 2)
  /\ find(call.arg[2], Chars("imdb.com")) < find(call.arg[2], Chars("{{IMDb"))
  /\ call.ret.imdb_id = Some(Chars("12"))

\* Where the first "(film" or "(téléfilm" of a title starts, 0 if it has none.
SuffixStart(title) ==
  LET starts == {i \in 1..Len(title) :
                   MatchAt(title, i, Chars("(film"), FALSE)
                     \/ MatchAt(title, i, Chars("(téléfilm"), FALSE)}
  IN IF starts = {} THEN 0 ELSE Min(starts)

\* A title without its trailing "(film ...)" or "(téléfilm ...)" suffix.
WithoutSuffix(title) ==
  IF SuffixStart(title) # 0 /\ title[Len(title)] = ")"
  THEN strip(SubSeq(title, 1, SuffixStart(title) - 1))
  ELSE title

\* The fields of a record other than title.
OtherKeys == FilmKeys \ {"title"}

\* C23: for a markup without a region from the infobox opener to its closing
\* marker, extract_film_data returns a record whose title is the page title
\* without its "(film ...)" or "(téléfilm ...)" suffix and whose every other
\* field is absent (actors: the empty list), imdb_id, english_title and
\* synopsis included whatever the markup holds.
NoStructuralBlock ==
  (call.fn = "extract_film_data" /\ infobox_content(call.arg[2]) = None)
  => /\ ~call.raised
     /\ DOMAIN call.ret = FilmKeys
     /\ call.ret.title = WithoutSuffix(call.arg[1])
     /\ call.ret.actors = <<>>
     /\ \A key \in OtherKeys \ {"actors"} : call.ret[key] = None

\* C23 witness: a film article whose infobox is never closed holds an IMDb
\* template and a synopsis section long enough, its title has a suffix, and
\* the record has the bare title only.
NoStructuralBlockWitness ==
  /\ FilmReturned
  /\ infobox_content(call.arg[2]) = None
  /\ is_film_article(call.arg[2])
  /\ ImdbMatching(call.arg[2]) # {}
  /\ extract_synopsis(call.arg[2]) # None
  /\ call.arg[1] # call.ret.title
  /\ call.ret.title = Chars("A")
  /\ call.ret.imdb_id = None
  /\ call.ret.synopsis = None

\* C24: from an empty store on, whatever runs were made and however each
\* ended, the ids of the committed rows are exactly 1..n, n the number of
\* committed rows.
ContiguousIds == {r.id : r \in movie} = 1..Cardinality(movie)

\* C24 witness: after a run that was killed when part of its work was
\* committed, a run of a fresh extractor has inserted a row and completed:
\* the new row took the id after the committed ones.
ContiguousIdsWitness ==
  /\ prev_end = "killed"
  /\ movie0 # {}
  /\ pc = "done"
  /\ \E k \in 1..Len(log) :
       /\ log[k].op = "insert"
       /\ log[k].id = Cardinality(movie0) + 1
       /\ \E r \in movie : r.id = log[k].id /\ r.title = log[k].title
=============================================================================
